---- MODULE Spec2Model ----
(***************************************************************************)
(* Model of the Waze hazard-alert pipeline:                                *)
(*   selfdrive/controls/lib/alerts_manager.py  (class AlertsManager)       *)
(*   selfdrive/wazed/wazed.py                  (class WazeAlertManager)    *)
(*                                                                         *)
(* Time is counted in whole seconds; one variable `now` stands for both    *)
(* time.monotonic() (read by AlertsManager) and time.time() (read by       *)
(* WazeAlertManager): the two clocks differ by a constant offset that no   *)
(* comparison in the code depends on.  Python dicts are functions whose    *)
(* DOMAIN is the dict's key set.                                           *)
(***************************************************************************)
EXTENDS Integers, Sequences, FiniteSets, TLC

VARIABLES
  now,                   \* the clock, in seconds
  \* ---- AlertsManager (alerts_manager.py) ----
  active_alerts,         \* self.active_alerts : set of keys
  alert_start_times,     \* self.alert_start_times : dict key -> time
  alert_last_displayed,  \* self.alert_last_displayed : dict key -> time
  controlsState,         \* messages AlertsManager.update sent in its last tick
  \* ---- the wazeAlerts channel (SubMaster, latest value) ----
  wazeAlerts,            \* sm['wazeAlerts'] : <<>> or <<latest message>>
  wazeAlerts_updated,    \* a message arrived since the last sm.update()
  \* ---- WazeAlertManager (wazed.py) ----
  current_lat,           \* self.current_lat
  current_lon,           \* self.current_lon
  last_fetch_time,       \* self.last_fetch_time
  db,                    \* table alerts as the connection sees it: uuid -> row
  db_committed,          \* table alerts as last committed
  waze_active_alerts,    \* self.active_alerts : set of uuids
  alert_manager,         \* the alerts handed to self.alert_manager.add_many so far
                         \* (each kept as the uuid of the row it was created for)
  waze_controlsState,    \* messages WazeAlertManager.update sent in its last tick
  waze_running,          \* the wazed process is alive (main's loop has not been left)
  \* ---- trace variables (no counterpart in the code) ----
  op,                    \* the call that produced the current state
  hist_start,            \* key -> time of its most recent activation
  tick                   \* what the last WazeAlertManager.update did

vars == <<now, active_alerts, alert_start_times, alert_last_displayed,
          controlsState, wazeAlerts, wazeAlerts_updated,
          current_lat, current_lon, last_fetch_time, db, db_committed,
          waze_active_alerts, alert_manager, waze_controlsState, waze_running,
          op, hist_start, tick>>

waze_vars == <<current_lat, current_lon, last_fetch_time, db, db_committed,
               waze_active_alerts, alert_manager, waze_controlsState, waze_running,
               tick>>

am_vars == <<active_alerts, alert_start_times, alert_last_displayed, controlsState>>
chan_vars == <<wazeAlerts, wazeAlerts_updated>>

----------------------------------------------------------------------------
(* Bounds of the model *)

\* seconds the clock may advance in one-second steps
MaxTime == 7

\* waits (of fetch_interval or of the three-hour cutoff) the clock may make
MaxWaits == 1

\* the meridian of the model's positions: any non-zero longitude
MeridianLon == 1

(* Program constants *)

\* self.alert_rate_limits.get(alert_name, 5.0)
RATE_LIMIT_DEFAULT == 5

\* self.alert_rate_limits is created empty and never written
alert_rate_limits == << >>

\* self.fetch_interval, seconds
fetch_interval == 120

\* self.alert_radius, km
alert_radius == 10

\* check_alerts: "pub_millis > int(time.time()*1000) - 10800000"
MAX_AGE_MS == 10800000

\* the clock at start-up: late enough that the first tick fetches
\* (time.time() - 0 >= fetch_interval) and that a three hour old record
\* has pub_millis >= 0
T0 == MAX_AGE_MS \div 1000 + fetch_interval

----------------------------------------------------------------------------
(* The alert catalog: alerts_offroad.json updated with alerts_waze.json.    *)
(* Both files are configuration outside the sources; the entries below     *)
(* have the shape AlertsManager reads: "text" (a string or a list),        *)
(* optional "severity", "size", "duration", "blinkingRate".                *)

(* "text" is kept as [is_list, items]: a JSON string s is                    *)
(* [is_list |-> FALSE, items |-> <<s>>], a JSON list is its items.          *)

Str(s) == [is_list |-> FALSE, items |-> <<s>>]
List(items) == [is_list |-> TRUE, items |-> items]

alerts ==
  [ wazePolice     |-> [text |-> List(<<"Police ahead", "Reported by Waze">>),
                        severity |-> 1, size |-> 1, duration |-> 3],
    wazeHazard     |-> [text |-> List(<<"Hazard ahead">>),
                        severity |-> 1, duration |-> 2],
    wazeAccident   |-> [text |-> Str("Accident ahead"),
                        severity |-> 2, size |-> 2, duration |-> 6, blinkingRate |-> 1],
    wazeRoadClosed |-> [text |-> List(<<"Road closed", "Reported by Waze">>),
                        severity |-> 2, duration |-> 3],
    Offroad_ConnectivityNeeded |-> [text |-> Str("Connect to internet"), severity |-> 0] ]

\* dict.get(field, default)
Get(d, field, default) == IF field \in DOMAIN d THEN d[field] ELSE default

\* "infinite" duration: float("inf") compares greater than any elapsed time
HasDuration(alert_name) == "duration" \in DOMAIN alerts[alert_name]

RateLimit(alert_name) == Get(alert_rate_limits, alert_name, RATE_LIMIT_DEFAULT)

----------------------------------------------------------------------------
(* AlertsManager: the registry as a value, so that update can chain calls  *)

Registry == [active_alerts |-> active_alerts,
             alert_start_times |-> alert_start_times,
             alert_last_displayed |-> alert_last_displayed]

\* d[k] = v  and  del d[k]
DictSet(d, k, v) == [x \in DOMAIN d \cup {k} |-> IF x = k THEN v ELSE d[x]]
DictDel(d, k) == [x \in DOMAIN d \ {k} |-> d[x]]

\* faulty variant: the rate-limit test is missing
add_no_rate_limit(r, alert_name, enabled, current_time) ==
  IF alert_name \notin DOMAIN alerts THEN r
  ELSE IF alert_name \in r.active_alerts THEN r
  ELSE IF enabled
    THEN [active_alerts |-> r.active_alerts \cup {alert_name},
          alert_start_times |-> DictSet(r.alert_start_times, alert_name, current_time),
          alert_last_displayed |-> DictSet(r.alert_last_displayed, alert_name, current_time)]
    ELSE r

\* faulty variant: the "already active" test is missing
add_no_active_check(r, alert_name, enabled, current_time) ==
  IF alert_name \notin DOMAIN alerts THEN r
  ELSE IF /\ alert_name \in DOMAIN r.alert_last_displayed
          /\ current_time - r.alert_last_displayed[alert_name] < RateLimit(alert_name)
    THEN r
  ELSE IF enabled
    THEN [active_alerts |-> r.active_alerts \cup {alert_name},
          alert_start_times |-> DictSet(r.alert_start_times, alert_name, current_time),
          alert_last_displayed |-> DictSet(r.alert_last_displayed, alert_name, current_time)]
    ELSE r

\* AlertsManager.add(alert_name, enabled) at time.monotonic() = current_time.
\* (The isinstance(alert_name, str) guard is not modelled: every key in the
\* model is a string.)
add(r, alert_name, enabled, current_time) ==
  IF alert_name \notin DOMAIN alerts THEN r
  ELSE IF alert_name \in r.active_alerts THEN r
  ELSE IF /\ alert_name \in DOMAIN r.alert_last_displayed
          /\ current_time - r.alert_last_displayed[alert_name] < RateLimit(alert_name)
    THEN r
  ELSE IF enabled
    THEN [active_alerts |-> r.active_alerts \cup {alert_name},
          alert_start_times |-> DictSet(r.alert_start_times, alert_name, current_time),
          alert_last_displayed |-> DictSet(r.alert_last_displayed, alert_name, current_time)]
    ELSE r

\* faulty variant: the start time of the removed key is kept
remove_keeps_start(r, alert_name) ==
  [r EXCEPT !.active_alerts = @ \ {alert_name}]

\* AlertsManager.remove(alert_name)
remove(r, alert_name) ==
  IF alert_name \in r.active_alerts
    THEN [r EXCEPT !.active_alerts = @ \ {alert_name},
                   !.alert_start_times =
                      IF alert_name \in DOMAIN @ THEN DictDel(@, alert_name) ELSE @]
    ELSE r

\* AlertsManager.clear_current_alert()
clear_current_alert(r) ==
  [r EXCEPT !.active_alerts = {}, !.alert_start_times = << >>]

\* faulty variant: the expiry test is >= instead of >
Expired_at_duration(r, alert_name, cur_time) ==
  /\ HasDuration(alert_name)
  /\ cur_time - Get(r.alert_start_times, alert_name, 0) >= alerts[alert_name].duration

\* the test of the expiry loop for one active key
Expired(r, alert_name, cur_time) ==
  /\ HasDuration(alert_name)
  /\ cur_time - Get(r.alert_start_times, alert_name, 0) > alerts[alert_name].duration

\* faulty variant: the expiry loop is not run
process_alerts_no_expiry(r, clear, cur_time) ==
  IF clear THEN clear_current_alert(r) ELSE r

RECURSIVE RemoveAll(_, _)
RemoveAll(r, names) ==
  IF names = {} THEN r
  ELSE LET n == CHOOSE x \in names : TRUE
       IN RemoveAll(remove(r, n), names \ {n})

\* AlertsManager.process_alerts(clear) at time.monotonic() = cur_time
process_alerts(r, clear, cur_time) ==
  LET r1 == IF clear THEN clear_current_alert(r) ELSE r
      alerts_to_remove == {a \in r1.active_alerts : Expired(r1, a, cur_time)}
  IN RemoveAll(r1, alerts_to_remove)

----------------------------------------------------------------------------
(* The display-state message of AlertsManager.update                        *)

\* lines 99-104: the all-cleared message
ClearedState ==
  [alertText1 |-> "", alertText2 |-> "", alertSize |-> 0,
   alertStatus |-> 0, alertBlinkingRate |-> 0]

\* lines 108-120: the message for the selected key
AlertState(current_alert) ==
  LET alert_config == alerts[current_alert]
      alert_text == alert_config.text
  IN [alertText1 |-> alert_text.items[1],
      alertText2 |-> IF alert_text.is_list /\ Len(alert_text.items) > 1
                       THEN alert_text.items[2] ELSE "",
      alertSize |-> Get(alert_config, "size", 1),
      alertStatus |-> Get(alert_config, "severity", 0),
      alertBlinkingRate |-> Get(alert_config, "blinkingRate", 0)]

\* faulty variant: POLICE and HAZARD are swapped
WazeKey_swapped(alertType) ==
  CASE alertType = "POLICE" -> "wazeHazard"
    [] alertType = "HAZARD" -> "wazePolice"
    [] alertType = "ACCIDENT" -> "wazeAccident"
    [] alertType = "ROAD_CLOSED" -> "wazeRoadClosed"
    [] OTHER -> ""

\* lines 86-93: the catalog key update adds for a message's alertType
WazeKey(alertType) ==
  CASE alertType = "POLICE" -> "wazePolice"
    [] alertType = "HAZARD" -> "wazeHazard"
    [] alertType = "ACCIDENT" -> "wazeAccident"
    [] alertType = "ROAD_CLOSED" -> "wazeRoadClosed"
    [] OTHER -> ""

\* list(self.active_alerts)[0]: the first element in the iteration order of
\* a Python set of strings, which depends on the per-process hash seed; any
\* active key can be the one
FirstOf(active) == active

----------------------------------------------------------------------------
(* Trace bookkeeping *)

NoKey == ""
\* name: the method; key: its key argument (for update: the key selected for
\* publication); flag: its boolean argument (for update: sm.updated['wazeAlerts'],
\* for waze_update: whether the fetch was due); prev: the key's previous
\* activation time, << >> if none; removed: the keys the call deactivated
Call(name, key, flag, prev, removed) ==
  [name |-> name, key |-> key, flag |-> flag, prev |-> prev, removed |-> removed]

\* hist_start after a step from registry r to registry r2 at time t
Activations(r, r2, t) ==
  [k \in DOMAIN hist_start \cup (r2.active_alerts \ r.active_alerts) |->
      IF k \in r2.active_alerts \ r.active_alerts THEN t ELSE hist_start[k]]

SetRegistry(r) ==
  /\ active_alerts' = r.active_alerts
  /\ alert_start_times' = r.alert_start_times
  /\ alert_last_displayed' = r.alert_last_displayed

----------------------------------------------------------------------------
(* Calls of the AlertsManager API *)

\* names a caller passes to add / remove
AlertNames == {"wazePolice", "Offroad_ConnectivityNeeded", "notInCatalog"}

AMAdd(alert_name, enabled) ==
  LET r2 == add(Registry, alert_name, enabled, now)
  IN /\ SetRegistry(r2)
     /\ hist_start' = Activations(Registry, r2, now)
     /\ op' = Call("add", alert_name, enabled,
                   IF alert_name \in DOMAIN hist_start THEN <<hist_start[alert_name]>> ELSE << >>,
                   {})
     /\ UNCHANGED <<now, controlsState, chan_vars, waze_vars>>

AMRemove(alert_name) ==
  /\ SetRegistry(remove(Registry, alert_name))
  /\ op' = Call("remove", alert_name, FALSE, << >>, active_alerts \cap {alert_name})
  /\ UNCHANGED <<now, controlsState, chan_vars, hist_start, waze_vars>>

AMClear ==
  /\ SetRegistry(clear_current_alert(Registry))
  /\ op' = Call("clear_current_alert", NoKey, FALSE, << >>, active_alerts)
  /\ UNCHANGED <<now, controlsState, chan_vars, hist_start, waze_vars>>

AMProcess(clear) ==
  /\ SetRegistry(process_alerts(Registry, clear, now))
  /\ op' = Call("process_alerts", NoKey, clear, << >>,
                active_alerts \ process_alerts(Registry, clear, now).active_alerts)
  /\ UNCHANGED <<now, controlsState, chan_vars, hist_start, waze_vars>>

\* AlertsManager.update(): one tick of the 10 Hz loop
AMUpdate ==
  LET alert == wazeAlerts
      r1 == IF /\ wazeAlerts_updated
               /\ alert # << >>
               /\ alert[1].alertType # ""      \* isfinite(distance) holds of every haversine result
               /\ WazeKey(alert[1].alertType) # ""
              THEN add(Registry, WazeKey(alert[1].alertType), TRUE, now)
              ELSE Registry
      r2 == process_alerts(r1, FALSE, now)
  IN /\ SetRegistry(r2)
     /\ wazeAlerts_updated' = FALSE
     /\ wazeAlerts' = wazeAlerts
     /\ hist_start' = Activations(Registry, r1, now)
     /\ IF r2.active_alerts # {}
          THEN \E current_alert \in FirstOf(r2.active_alerts) :
                 /\ controlsState' = <<AlertState(current_alert)>>
                 /\ op' = Call("update", current_alert, wazeAlerts_updated, << >>,
                             r1.active_alerts \ r2.active_alerts)
          ELSE /\ controlsState' = <<ClearedState>>
               /\ op' = Call("update", NoKey, wazeAlerts_updated, << >>,
                           r1.active_alerts \ r2.active_alerts)
     /\ UNCHANGED <<now, waze_vars>>

\* one second passes
TickSecond ==
  /\ now < T0 + MaxTime
  /\ now' = now + 1
  /\ op' = Call("tick", NoKey, FALSE, << >>, {})
  /\ UNCHANGED <<am_vars, chan_vars, hist_start, waze_vars>>

----------------------------------------------------------------------------
(* WazeAlertManager *)

\* Positions.  Every hazard and every vehicle position with a fix lies on
\* the meridian MeridianLon, and a latitude is counted in kilometres of arc
\* along it (1 unit = 1/6371 rad), so that the great-circle distance of two
\* points is the difference of their latitudes.

\* haversine_distance: for lon1 = lon2 the formula reduces to
\* EARTH_RADIUS_KM * |lat2 - lat1| (in radians), i.e. the difference in
\* kilometres of arc
haversine_distance(lat1, lon1, lat2, lon2) ==
  IF lat1 >= lat2 THEN lat1 - lat2 ELSE lat2 - lat1

\* "if not self.current_lat or not self.current_lon": the guard of
\* fetch_alerts and check_alerts takes a zero coordinate for "no GPS yet"
HasFix(lat, lon) == lat # 0 /\ lon # 0

\* what sm['gpsLocationExternal'] can deliver on a tick: nothing new, or a position
GpsInputs ==
  {<< >>} \cup {<<[latitude |-> la, longitude |-> MeridianLon]>> : la \in {10, 11}}
          \cup {<<[latitude |-> 10, longitude |-> 0]>>}

\* The upstream feed.  A hazard keeps its place; the type and the
\* publication time of a uuid can differ between deliveries.
Uuids == {"u1", "u2"}
HazardLat(uuid) == IF uuid = "u1" THEN 20 ELSE 21
HazardTypes(uuid) == IF uuid = "u1" THEN {"POLICE", "HAZARD"} ELSE {"HAZARD", "JAM"}

\* one element of data['alerts'] as the feed sends it at time t
FeedAlerts(t) ==
  UNION {{[uuid |-> u, type |-> ty, location |-> [y |-> HazardLat(u), x |-> MeridianLon],
           pubMillis |-> t * 1000] : ty \in HazardTypes(u)} : u \in Uuids}

\* responses of requests.get(...).json(): a failure (timeout, network error,
\* unparsable body) or the list data['alerts'], here of at most two records
\* with different uuids
FeedFailure == [ok |-> FALSE, alerts |-> << >>]
FeedResponses(t) ==
  {FeedFailure}
  \cup {[ok |-> TRUE, alerts |-> << >>]}
  \cup {[ok |-> TRUE, alerts |-> <<a>>] : a \in FeedAlerts(t)}
  \cup {[ok |-> TRUE, alerts |-> <<p[1], p[2]>>] :
          p \in {q \in FeedAlerts(t) \X FeedAlerts(t) : q[1].uuid # q[2].uuid}}

\* the row INSERTed for a feed record (lines 119-131); the text columns
\* subtype, road_name and city are carried through unread and left out
Row(alert) ==
  [type |-> alert.type, latitude |-> alert.location.y,
   longitude |-> alert.location.x, pub_millis |-> alert.pubMillis]

\* the loop of lines 118-132: rows are INSERTed one by one; uuid is the
\* PRIMARY KEY, so the INSERT of a uuid already in the table raises
\* sqlite3.IntegrityError, which leaves the loop with the rows inserted so
\* far still in the open transaction
RECURSIVE insert_loop(_, _)
insert_loop(d, batch) ==
  IF batch = << >> THEN [db |-> d, raised |-> FALSE]
  ELSE IF Head(batch).uuid \in DOMAIN d THEN [db |-> d, raised |-> TRUE]
  ELSE insert_loop(DictSet(d, Head(batch).uuid, Row(Head(batch))), Tail(batch))

\* faulty variant: the DELETE of line 111 is live and runs before the request
fetch_alerts_delete_first(lat, lon, d, dc, feed) ==
  IF ~HasFix(lat, lon) THEN [db |-> d, db_committed |-> dc, outcome |-> "skipped"]
  ELSE IF ~feed.ok THEN [db |-> << >>, db_committed |-> dc, outcome |-> "failed"]
  ELSE LET ins == insert_loop(<< >>, feed.alerts)
       IN IF ins.raised
            THEN [db |-> ins.db, db_committed |-> dc, outcome |-> "aborted"]
            ELSE [db |-> ins.db, db_committed |-> ins.db, outcome |-> "stored"]

\* WazeAlertManager.fetch_alerts() with the connection's table d, the
\* committed table dc and the feed's response
fetch_alerts(lat, lon, d, dc, feed) ==
  IF ~HasFix(lat, lon) THEN [db |-> d, db_committed |-> dc, outcome |-> "skipped"]
  ELSE IF ~feed.ok THEN [db |-> d, db_committed |-> dc, outcome |-> "failed"]
  ELSE LET ins == insert_loop(d, feed.alerts)
       IN IF ins.raised
            THEN [db |-> ins.db, db_committed |-> dc, outcome |-> "aborted"]
            ELSE [db |-> ins.db, db_committed |-> ins.db, outcome |-> "stored"]

\* create_alert(alert_type, road_name, distance); alert_text_2 (road name
\* and distance) is left out
create_alert(alert_type) ==
  [alert_text_1 |-> <<alert_type, " ahead">>, alert_status |-> "normal",
   alert_size |-> "small"]

\* the SELECT of lines 162-166 at time t: the uuids of the rows it returns
Recent(d, t) == {u \in DOMAIN d : d[u].pub_millis > t * 1000 - MAX_AGE_MS}

\* faulty variant: the radius test is < instead of <=
InRadius_strict(distance) == distance < alert_radius

\* line 177
InRadius(distance) == distance <= alert_radius

\* faulty variant: every nearby row is announced on every tick
IsNew_always(uuid, active) == TRUE

\* line 180
IsNew(uuid, active) == uuid \notin active

\* the orders in which cursor.fetchall() can return the rows (the query has
\* no ORDER BY)
Orders(S) == {f \in [1..Cardinality(S) -> S] : \A i, j \in 1..Cardinality(S) : f[i] = f[j] => i = j}

\* WazeAlertManager.check_alerts() at time t, the rows coming in `order`:
\* the new self.active_alerts, the uuids a wazeAlerts message was sent for
\* (in order), and alerts_to_show
check_alerts(lat, lon, d, active, t, order) ==
  IF ~HasFix(lat, lon)
    THEN [active_alerts |-> active, sent |-> << >>, alerts_to_show |-> {}]
    ELSE LET Near(u) == InRadius(haversine_distance(lat, lon, d[u].latitude, d[u].longitude))
             nearby_alerts == {u \in Recent(d, t) : Near(u)}
             Announce(u) == Near(u) /\ IsNew(u, active)
             sent == SelectSeq(order, Announce)
         IN [active_alerts |-> nearby_alerts,
             sent |-> sent,
             alerts_to_show |-> {sent[i] : i \in 1..Len(sent)}]

\* the wazeAlerts message of lines 184-192 for row uuid of table d
WazeMsg(lat, lon, d, uuid) ==
  [alertType |-> d[uuid].type,
   distance |-> haversine_distance(lat, lon, d[uuid].latitude, d[uuid].longitude)]

\* the controlsState message of lines 229-243
WazeControlsState(alert) ==
  [alertText1 |-> alert.alert_text_1, alertSize |-> alert.alert_size,
   alertStatus |-> alert.alert_status]

\* self.alert_manager is an AlertManager of selfdrive/controls/lib/alertmanager.py,
\* which is outside the sources: process_alerts(frame, set()) returns None
\* (here << >>) or one of the alerts add_many was given on an earlier tick
AlertManager_process_alerts(added, d) ==
  {<< >>} \cup {<<create_alert(d[u].type)>> : u \in added}

\* fetch: what fetch_alerts did ("not_due" if it was not called); batch: the
\* records the feed delivered; sent: the uuids announced on wazeAlerts;
\* query_ok: the SELECT of check_alerts did not raise; fetched_at: the time
\* of the latest call of fetch_alerts, << >> if none
NoTick == [fetch |-> "none", batch |-> << >>, sent |-> << >>, query_ok |-> TRUE,
           fetched_at |-> << >>]

\* faulty variant: the interval is not compared
FetchDue_every_tick(t, last) == t - last >= 0

\* line 221
FetchDue(t, last) == t - last >= fetch_interval

\* WazeAlertManager.update(): one tick of the 2 Hz loop.  (self.frame only
\* counts the ticks for self.alert_manager and is left out.)
\* query_ok: whether self.db.execute of check_alerts (line 162) succeeds.  It
\* is not inside a try, and neither update nor main catches: when it raises
\* (sqlite3.Error), the exception leaves main and the process ends, after
\* the steps of the tick that come before check_alerts.
WazeUpdate(query_ok) ==
  /\ waze_running
  /\ \E gps \in GpsInputs :
      LET lat == IF gps # << >> THEN gps[1].latitude ELSE current_lat
          lon == IF gps # << >> THEN gps[1].longitude ELSE current_lon
          due == FetchDue(now, last_fetch_time)
          raised == HasFix(lat, lon) /\ ~query_ok
      IN /\ query_ok \/ HasFix(lat, lon)
         /\ \E feed \in (IF due /\ HasFix(lat, lon) THEN FeedResponses(now) ELSE {FeedFailure}) :
           LET f == IF due THEN fetch_alerts(lat, lon, db, db_committed, feed)
                           ELSE [db |-> db, db_committed |-> db_committed, outcome |-> "not_due"]
           IN \E alert \in AlertManager_process_alerts(alert_manager, db),
                 order \in Orders(IF raised THEN {} ELSE Recent(f.db, now)) :
                LET c == IF raised
                           THEN [active_alerts |-> waze_active_alerts, sent |-> << >>,
                                 alerts_to_show |-> {}]
                           ELSE check_alerts(lat, lon, f.db, waze_active_alerts, now, order)
                IN /\ current_lat' = lat
                   /\ current_lon' = lon
                   /\ last_fetch_time' = IF due THEN now ELSE last_fetch_time
                   /\ db' = f.db
                   /\ db_committed' = f.db_committed
                   /\ waze_controlsState' =
                        IF alert # << >> THEN <<WazeControlsState(alert[1])>> ELSE << >>
                   /\ waze_active_alerts' = c.active_alerts
                   /\ alert_manager' = alert_manager \cup c.alerts_to_show
                   /\ IF c.sent # << >>
                        THEN /\ wazeAlerts' = <<WazeMsg(lat, lon, f.db, c.sent[Len(c.sent)])>>
                             /\ wazeAlerts_updated' = TRUE
                        ELSE UNCHANGED chan_vars
                   /\ waze_running' = ~raised
                   /\ tick' = [fetch |-> f.outcome,
                               batch |-> IF f.outcome \in {"aborted", "stored"}
                                           THEN feed.alerts ELSE << >>,
                               sent |-> c.sent,
                               query_ok |-> ~raised,
                               fetched_at |-> IF due THEN <<now>> ELSE tick.fetched_at]
                   /\ op' = Call("waze_update", NoKey, due, << >>, {})
                   /\ UNCHANGED <<now, am_vars, hist_start>>

\* the clock moves on by a fetch interval or by the three-hour cutoff
WaitsTaken == ((now - T0) \div (MAX_AGE_MS \div 1000))
              + (((now - T0) % (MAX_AGE_MS \div 1000)) \div fetch_interval)

Wait(dt) ==
  /\ WaitsTaken < MaxWaits
  /\ (now - T0) % fetch_interval = 0
  /\ now' = now + dt
  /\ op' = Call("wait", NoKey, FALSE, << >>, {})
  /\ UNCHANGED <<am_vars, chan_vars, hist_start, waze_vars>>

----------------------------------------------------------------------------
Init ==
  /\ now = T0
  /\ active_alerts = {}
  /\ alert_start_times = << >>
  /\ alert_last_displayed = << >>
  /\ controlsState = << >>
  /\ wazeAlerts = << >>
  /\ wazeAlerts_updated = FALSE
  /\ op = Call("init", NoKey, FALSE, << >>, {})
  /\ hist_start = << >>
  /\ current_lat = 0
  /\ current_lon = 0
  /\ last_fetch_time = 0
  /\ db = << >>
  /\ db_committed = << >>
  /\ waze_active_alerts = {}
  /\ alert_manager = {}
  /\ waze_controlsState = << >>
  /\ waze_running = TRUE
  /\ tick = NoTick

(* The registry driven through its public methods *)
NextAM ==
  \/ \E alert_name \in AlertNames, enabled \in BOOLEAN : AMAdd(alert_name, enabled)
  \/ \E alert_name \in AlertNames : AMRemove(alert_name)
  \/ AMClear
  \/ \E clear \in BOOLEAN : AMProcess(clear)
  \/ AMUpdate
  \/ TickSecond

SpecAM == Init /\ [][NextAM]_vars

(* The hazard pipeline alone: ticks of WazeAlertManager.update *)
NextWaze ==
  \/ \E query_ok \in BOOLEAN : WazeUpdate(query_ok)
  \/ \E dt \in {fetch_interval, MAX_AGE_MS \div 1000} : Wait(dt)

SpecWaze == Init /\ [][NextWaze]_vars

(* The two loops side by side, as the processes run, over the seconds that *)
(* follow start-up, the store being readable                               *)
Next ==
  \/ WazeUpdate(TRUE)
  \/ AMUpdate
  \/ TickSecond

Spec == Init /\ [][Next]_vars

----------------------------------------------------------------------------
(* Properties of the registry *)

\* C1: rate limiting of add.  An add(key) of a catalog key that is not
\* active is a no-op while now - (start of the key's previous display) <
\* rate_limit (5 s) and activates the key, with started_at = now, once that
\* interval has elapsed; whatever call activates a key, its previous
\* activation lies at least rate_limit back; and alert_last_displayed keeps
\* the start of the latest display of every key through remove, clear and
\* expiry.
C1_RateLimit ==
  [][ /\ alert_last_displayed' = hist_start'
      /\ ( /\ op'.name = "add" /\ op'.flag
           /\ op'.key \in DOMAIN alerts
           /\ op'.key \notin active_alerts )
         => IF /\ op'.key \in DOMAIN hist_start
               /\ now - hist_start[op'.key] < RATE_LIMIT_DEFAULT
              THEN Registry' = Registry
              ELSE /\ op'.key \in active_alerts'
                   /\ alert_start_times'[op'.key] = now
      /\ \A k \in active_alerts' \ active_alerts :
            k \in DOMAIN hist_start => now - hist_start[k] >= RATE_LIMIT_DEFAULT
    ]_vars

\* C1 witness: an add has just activated a key for the second time, the
\* rate limit after its previous display having elapsed
C1_Witness ==
  /\ op.name = "add" /\ op.flag
  /\ op.prev # << >>
  /\ op.key \in active_alerts
  /\ alert_start_times[op.key] = now
  /\ now - op.prev[1] >= RATE_LIMIT_DEFAULT

\* C2: expiry.  When process_alerts runs its expiry loop at time now (in a
\* direct call, after the optional clear; in update, after the adds), a key
\* that was active is removed exactly when it has a configured duration and
\* now - started_at > duration; every other active key stays active with
\* its started_at unchanged.
C2_Expiry ==
  [][ (\/ op'.name = "process_alerts" /\ ~op'.flag
       \/ op'.name = "update")
      => \A k \in active_alerts :
           /\ (k \notin active_alerts') <=>
                 (HasDuration(k) /\ now - alert_start_times[k] > alerts[k].duration)
           /\ k \in active_alerts' => alert_start_times'[k] = alert_start_times[k]
    ]_vars

\* C2 witness: process_alerts has just removed a key one second past its
\* duration and kept another key, which has no duration, active
C2_Witness ==
  /\ op.name = "process_alerts" /\ ~op.flag
  /\ \E k \in op.removed : now - hist_start[k] = alerts[k].duration + 1
  /\ \E k \in active_alerts : ~HasDuration(k) /\ alert_start_times[k] < now

\* C3: add of a key that is active changes nothing: the key stays the one
\* active entry and its started_at and last_displayed_at keep the values of
\* the first add, whatever time has passed.
C3_AddIdempotent ==
  [][ (op'.name = "add" /\ op'.key \in active_alerts) => Registry' = Registry ]_vars

\* C3 witness: add was called on a key that had been active for at least
\* the rate limit, and the key still has its first started_at
C3_Witness ==
  /\ op.name = "add" /\ op.flag
  /\ op.key \in active_alerts
  /\ op.prev = <<alert_start_times[op.key]>>
  /\ alert_last_displayed[op.key] = alert_start_times[op.key]
  /\ now - alert_start_times[op.key] >= RATE_LIMIT_DEFAULT

\* A total order on the catalog keys: by severity, ties broken by the key's
\* place in the alphabet
KeyOrder == <<"Offroad_ConnectivityNeeded", "wazeAccident", "wazeHazard",
              "wazePolice", "wazeRoadClosed">>
KeyIndex(k) == CHOOSE i \in 1..Len(KeyOrder) : KeyOrder[i] = k
Rank(k) == Get(alerts[k], "severity", 0) * (Len(KeyOrder) + 1) + KeyIndex(k)
Highest(active) == CHOOSE k \in active : \A j \in active : Rank(j) <= Rank(k)

\* C4: the alert update publishes is the active key that is maximal under
\* the total order on severity with the key-based tie-break, so the same
\* active set always gives the same published alert.
C4_SelectionIsMaximum ==
  (op.name = "update" /\ active_alerts # {}) =>
     /\ op.key = Highest(active_alerts)
     /\ controlsState = <<AlertState(Highest(active_alerts))>>

----------------------------------------------------------------------------
(* Properties of the hazard store and the proximity check *)

\* C5: upsert.  After a refresh that delivered a record, the store holds
\* one row for the record's uuid and the row carries the fields of this,
\* the latest, delivery.
C5_Upsert ==
  (op.name = "waze_update" /\ tick.fetch \in {"stored", "aborted"}) =>
     \A i \in 1..Len(tick.batch) :
        /\ tick.batch[i].uuid \in DOMAIN db
        /\ db[tick.batch[i].uuid] = Row(tick.batch[i])

\* C6: a feed call that fails (timeout, network error, unparsable body)
\* leaves the store as it was: the table the connection sees and the
\* committed table are both unchanged by that tick.
C6_FailedFetchKeepsStore ==
  [][ (op'.name = "waze_update" /\ tick'.fetch = "failed")
      => (db' = db /\ db_committed' = db_committed) ]_vars

\* C6 witness: a fetch has just failed with rows in the store
C6_Witness ==
  /\ op.name = "waze_update"
  /\ tick.fetch = "failed"
  /\ db # << >>

\* C7: after a check_alerts call made with a fix (both coordinates
\* non-zero) that returned, the active hazard set is exactly the stored
\* uuids with pub_millis > now_ms - 10800000 and distance <= alert_radius.
C7_ActiveSet ==
  (op.name = "waze_update" /\ HasFix(current_lat, current_lon) /\ tick.query_ok) =>
     waze_active_alerts =
       {u \in DOMAIN db :
          /\ db[u].pub_millis > now * 1000 - MAX_AGE_MS
          /\ haversine_distance(current_lat, current_lon,
                                db[u].latitude, db[u].longitude) <= alert_radius}

\* C7 witness: after a tick with a fix, a fresh hazard at exactly
\* alert_radius is active and a hazard within the radius whose pub_millis
\* is exactly the cutoff is not
C7_Witness ==
  /\ op.name = "waze_update"
  /\ HasFix(current_lat, current_lon)
  /\ \E u \in waze_active_alerts :
        haversine_distance(current_lat, current_lon,
                           db[u].latitude, db[u].longitude) = alert_radius
  /\ \E u \in DOMAIN db \ waze_active_alerts :
        /\ haversine_distance(current_lat, current_lon,
                              db[u].latitude, db[u].longitude) < alert_radius
        /\ db[u].pub_millis = now * 1000 - MAX_AGE_MS

\* the uuids of a sequence
Range(q) == {q[i] : i \in 1..Len(q)}

\* C8: a tick sends one wazeAlerts message for each uuid of (the active set
\* it stores) minus (the active set the previous tick stored), and for no
\* other: a hazard that stays in the set is not announced again.
C8_EnterTransitions ==
  [][ op'.name = "waze_update"
      => /\ Range(tick'.sent) = waze_active_alerts' \ waze_active_alerts
         /\ Len(tick'.sent) = Cardinality(waze_active_alerts' \ waze_active_alerts)
         /\ (tick'.sent # << >>) => wazeAlerts_updated' ]_vars

\* C8 witness: on a tick one hazard entered and was announced while another
\* stayed active and was not
C8_Witness ==
  /\ op.name = "waze_update"
  /\ Len(tick.sent) = 1
  /\ \E u \in waze_active_alerts : u \notin Range(tick.sent)

----------------------------------------------------------------------------
(* Properties of the two loops together *)

\* C9: end to end.  (a) A tick with a fix whose fetch stores one POLICE
\* record, the only row of the store, lying within the radius, announces the
\* record's uuid as entered and leaves a POLICE message on wazeAlerts.
\* (b) The AlertsManager.update that reads a POLICE message into a registry
\* that has displayed nothing yet makes wazePolice active and publishes a
\* display state with non-empty alertText1 and alertStatus equal to the
\* catalog severity of wazePolice.
C9_EndToEnd ==
  [][ /\ ( /\ op'.name = "waze_update"
           /\ tick'.fetch = "stored"
           /\ Len(tick'.batch) = 1
           /\ tick'.batch[1].type = "POLICE"
           /\ DOMAIN db' = {tick'.batch[1].uuid}
           /\ haversine_distance(current_lat', current_lon', tick'.batch[1].location.y,
                                 tick'.batch[1].location.x) <= alert_radius )
         => /\ tick'.sent = <<tick'.batch[1].uuid>>
            /\ waze_active_alerts' = {tick'.batch[1].uuid}
            /\ wazeAlerts_updated'
            /\ wazeAlerts'[1].alertType = "POLICE"
      /\ ( /\ op'.name = "update"
           /\ wazeAlerts_updated
           /\ wazeAlerts[1].alertType = "POLICE"
           /\ hist_start = << >> )
         => /\ active_alerts' = {"wazePolice"}
            /\ Len(controlsState') = 1
            /\ controlsState'[1].alertText1 # ""
            /\ controlsState'[1].alertStatus = alerts["wazePolice"].severity
    ]_vars

\* C9 witness: the feed returned one POLICE record within the radius, the
\* tick announced it, and AlertsManager.update has just read the message,
\* activated wazePolice and published its display state
C9_Witness ==
  /\ op.name = "update" /\ op.flag
  /\ tick.fetch = "stored"
  /\ Len(tick.batch) = 1
  /\ tick.batch[1].type = "POLICE"
  /\ tick.sent = <<tick.batch[1].uuid>>
  /\ active_alerts = {"wazePolice"}
  /\ alert_start_times["wazePolice"] = now
  /\ controlsState = <<AlertState("wazePolice")>>

\* C10: every tick of either loop publishes exactly one controlsState
\* message: the selected alert's fields when an alert is active, the
\* all-cleared state when none is.
C10_OneMessagePerTick ==
  /\ op.name = "update" =>
        /\ Len(controlsState) = 1
        /\ controlsState[1] = IF active_alerts = {} THEN ClearedState
                                                   ELSE AlertState(op.key)
        /\ active_alerts # {} => op.key \in active_alerts
  /\ op.name = "waze_update" => Len(waze_controlsState) = 1

\* C11: expiry-only policy.  A hazard that leaves the radius removes no
\* alert key: a key that is active stays active over every step of either
\* loop, except the AlertsManager.update step whose process_alerts finds
\* now - started_at > duration for it.  (update calls neither remove nor
\* clear_current_alert, and wazed never touches the registry.)
C11_ExpiryOnly ==
  [][ \A k \in active_alerts :
        k \notin active_alerts' =>
           /\ op'.name = "update"
           /\ k \in op'.removed
           /\ HasDuration(k)
           /\ now - alert_start_times[k] > alerts[k].duration
    ]_vars

\* C11 witness: hazard u2 (HAZARD) was announced, the tick that has just run
\* dropped it from wazed's active set (the vehicle moved away), and
\* wazeHazard, which no other stored hazard accounts for, is still active
C11_Witness ==
  /\ op.name = "waze_update"
  /\ DOMAIN db = {"u2"}
  /\ db["u2"].type = "HAZARD"
  /\ "u2" \in alert_manager
  /\ "u2" \notin waze_active_alerts
  /\ HasFix(current_lat, current_lon)
  /\ "wazeHazard" \in active_alerts

\* C12: a stored record whose type is none of POLICE, HAZARD, ACCIDENT,
\* ROAD_CLOSED never produces an alert: the update that reads its message
\* activates no key, and wazed creates no alert for display from it (none
\* is handed to its alert manager, none is published).
C12_UnmappedNeverAlerts ==
  [][ /\ ( /\ op'.name = "update"
           /\ wazeAlerts_updated
           /\ WazeKey(wazeAlerts[1].alertType) = NoKey )
         => active_alerts' \subseteq active_alerts
      /\ \A u \in alert_manager' : WazeKey(db'[u].type) # NoKey
    ]_vars

----------------------------------------------------------------------------
(* Properties of the refresh cadence and of failures *)

\* C13: fetch cadence.  fetch_alerts is called only on a tick that is due,
\* and a call comes at least fetch_interval (120 s) after the call before
\* it.
C13_FetchCadence ==
  [][ op'.name = "waze_update" =>
        /\ op'.flag <=> tick'.fetch # "not_due"
        /\ (op'.flag /\ tick.fetched_at # << >>) =>
               now' - tick.fetched_at[1] >= fetch_interval
    ]_vars

\* C13 witness: fetch_alerts has just been called exactly fetch_interval
\* after the call that stored the rows of the first refresh
C13_Witness ==
  /\ op.name = "waze_update" /\ op.flag
  /\ now = T0 + fetch_interval
  /\ tick.fetched_at = <<now>>
  /\ \E u \in DOMAIN db : db[u].pub_millis = T0 * 1000

C15_WriteFailureDropsOneRecord ==
  [][ (op'.name = "waze_update" /\ tick'.fetch \in {"stored", "aborted"}) =>
        \A i \in 1..Len(tick'.batch) :
           tick'.batch[i].uuid \notin DOMAIN db =>
              /\ tick'.batch[i].uuid \in DOMAIN db_committed'
              /\ db_committed'[tick'.batch[i].uuid] = Row(tick'.batch[i])
    ]_vars

\* C16: a storage failure on read does not crash the tick.  When the query
\* of check_alerts fails, the active hazard set keeps its value, nothing is
\* announced, and the loop goes on.
C16_ReadFailureKeepsLoop ==
  [][ (op'.name = "waze_update" /\ ~tick'.query_ok) =>
        /\ waze_active_alerts' = waze_active_alerts
        /\ tick'.sent = << >>
        /\ waze_running'
    ]_vars

----------------------------------------------------------------------------
(* Properties of the two loops together *)

\* C17: every hazard with a mapped type that enters reaches the registry.
\* The AlertsManager.update that reads the channel after a tick calls add
\* with the mapped key of each hazard the tick announced, also when the
\* tick announced several hazards of different types: afterwards each of
\* these keys is active or has a last-displayed time.
C17_EveryEnteredHazardAdded ==
  [][ (op'.name = "update" /\ op.name = "waze_update" /\ wazeAlerts_updated) =>
        \A u \in Range(tick.sent) :
           WazeKey(db[u].type) # NoKey =>
              WazeKey(db[u].type) \in DOMAIN alert_last_displayed'
    ]_vars

\* C18: order within AlertsManager.update: the add for the message read
\* comes first, process_alerts runs once after it, selection and
\* publication come last.  So a key the expiry check of the tick found
\* with now - started_at > duration is not active afterwards, also when
\* the message of the tick asked for it, and the alert published is an
\* active key for which that did not hold.
C18_UpdateOrder ==
  op.name = "update" =>
     /\ op.removed \cap active_alerts = {}
     /\ \A k \in active_alerts :
           HasDuration(k) => ~(now - alert_start_times[k] > alerts[k].duration)
     /\ active_alerts # {} =>
           /\ op.key \in active_alerts
           /\ controlsState = <<AlertState(op.key)>>
     /\ active_alerts = {} => controlsState = <<ClearedState>>

\* C18 witness: the update that has just run read a message for a key that
\* was still active, so the add was dropped; its expiry check then removed
\* that key, and it published another key, which had not expired
C18_Witness ==
  /\ op.name = "update" /\ op.flag
  /\ WazeKey(wazeAlerts[1].alertType) \in op.removed
  /\ op.key \in active_alerts
  /\ now - alert_start_times[op.key] = alerts[op.key].duration

----------------------------------------------------------------------------
(* Bookkeeping of the registry *)

\* C19: after every add, remove, clear_current_alert, process_alerts (and
\* update): the keys of alert_start_times are exactly the active keys,
\* every active key is a catalog key, every active key has
\* alert_last_displayed[key] = alert_start_times[key]; and no call deletes
\* an entry of alert_last_displayed.
C19_RegistryBookkeeping ==
  [][ /\ DOMAIN alert_start_times' = active_alerts'
      /\ active_alerts' \subseteq DOMAIN alerts
      /\ \A k \in active_alerts' :
            /\ k \in DOMAIN alert_last_displayed'
            /\ alert_last_displayed'[k] = alert_start_times'[k]
      /\ DOMAIN alert_last_displayed \subseteq DOMAIN alert_last_displayed'
    ]_vars

\* C19 witness: remove has just taken an active key out while another key
\* stays active; the removed key has no start time left and keeps its
\* last-displayed time
C19_Witness ==
  /\ op.name = "remove"
  /\ op.removed # {}
  /\ active_alerts # {}
  /\ \A k \in op.removed :
        /\ k \notin DOMAIN alert_start_times
        /\ k \in DOMAIN alert_last_displayed

----------------------------------------------------------------------------
(* A rejected add *)

\* C20: a rejected add is not retried.  A key becomes active only in the
\* AlertsManager.update that reads a wazeAlerts message not read before
\* whose type maps to the key; that update uses the message up whether add
\* accepted it or not; and a tick of wazed sends messages for the hazards
\* that enter on that tick and for no other.  So a hazard whose add was
\* dropped (key active or rate-limited) causes no activation on a later
\* tick while it stays in the radius, whatever time has passed.
C20_RejectedAddNotRetried ==
  [][ /\ \A k \in active_alerts' \ active_alerts :
            /\ op'.name = "update"
            /\ wazeAlerts_updated
            /\ WazeKey(wazeAlerts[1].alertType) = k
      /\ op'.name = "update" => ~wazeAlerts_updated'
      /\ op'.name = "waze_update" =>
            /\ Range(tick'.sent) = waze_active_alerts' \ waze_active_alerts
            /\ tick'.sent = << >> =>
                  (wazeAlerts' = wazeAlerts /\ wazeAlerts_updated' = wazeAlerts_updated)
    ]_vars

\* C20 witness: hazard u2 entered on the last tick of wazed while the key of
\* its type had been active since an earlier second, and the update that
\* has just read its message dropped the add: the start time is the old one
C20_Witness ==
  /\ op.name = "update" /\ op.flag
  /\ tick.sent = <<"u2">>
  /\ "u2" \in waze_active_alerts
  /\ WazeKey(db["u2"].type) \in active_alerts
  /\ WazeKey(wazeAlerts[1].alertType) = WazeKey(db["u2"].type)
  /\ alert_start_times[WazeKey(db["u2"].type)] < now
  /\ hist_start[WazeKey(db["u2"].type)] < now

====
